---- MODULE Spec2Model ----
(***************************************************************************)
(* The Cohort class of cohorts/load.py: a disk cache of per-sample merged  *)
(* variant collections and of per-sample neoantigen tables.                *)
(*                                                                         *)
(* The cache tree is modelled as the set of its directories and the map    *)
(* from file paths to file contents; every public method is one atomic     *)
(* action, and `last` records what the most recent call returned or raised *)
(* together with the I/O it performed.                                     *)
(***************************************************************************)
EXTENDS Integers, Sequences, FiniteSets, TLC

\* ------------------------------------------------------------- bounds
NumSamples == 2      \* len(sample_ids)
MaxFuncs == 2        \* most format functions configured for a variant type
MaxMissing == 1      \* most source files absent from data_dir
MaxStoreFiles == 2   \* most files a direct caller of the store keeps in it
NumPositions == 2    \* loci a drawn source file may hold a call at

\* --------------------------------------------------------- python values
None == [type |-> "None"]

\* A scalar held in a table cell or used as a sample id: python type and text.
StrCell(txt) == [t |-> "str", s |-> txt]

IntCell(txt) == [t |-> "int", s |-> txt]

Digits == {"0", "1", "2", "3", "4", "5", "6", "7", "8", "9"}

DigitOf == <<"1", "2", "3", "4", "5", "6", "7", "8", "9">>

IsNumeric(txt) == Len(txt) > 0 /\ \A k \in 1..Len(txt) : txt[k] \in Digits

RECURSIVE StripZeros(_)
StripZeros(txt) ==
    IF Len(txt) > 1 /\ txt[1] = "0" THEN StripZeros(Tail(txt)) ELSE txt

\* str(x), as used for the sample's directory name.
Str(cell) == cell.s

\* The sample ids a cohort is built with: strings, among them an all-digit
\* one, and an integer.
SampleIdPool ==
    << StrCell(<<"s", "1">>), StrCell(<<"0", "7">>), IntCell(<<"3">>),
       StrCell(<<"s", "4">>) >>

sample_ids == [i \in 1..NumSamples |-> SampleIdPool[i]]

SampleIdx == 1..NumSamples

VALID_VARIANT_TYPES == {"snv", "indel"}

VALID_MERGE_TYPES == {"union", "intersection"}

\* Arguments the callers pass; "None" stands for python's None.
VariantTypeArgs == {"snv", "indel", "cnv"}

MergeTypeArgs == {"None", "union", "intersection", "majority"}

variant_cache_name == "cached-variants"

neoantigen_cache_name == "cached-neoantigens"

CacheNames == {variant_cache_name, neoantigen_cache_name}

\* "%s-%s-variants.pkl" % (variant_type, merge_type), kept as its parts; the
\* last part is the extension path.splitext sees.
VariantsFileName(variant_type, merge_type) ==
    <<variant_type, merge_type, "variants", "pkl">>

NeoantigensFileName(variant_type, merge_type) ==
    <<variant_type, merge_type, "neoantigens", "csv">>

Ext(file_name) == file_name[4]

\* ------------------------------------------------------- serialization
\* pickle.dump: the object itself, recoverable only by pickle.load.
PickleDump(obj) == [fmt |-> "pickle", obj |-> obj]

PickleLoad(content) ==
    IF content.fmt = "pickle"
    THEN [status |-> "ok", value |-> content.obj]
    ELSE [status |-> "DeserializationFailure", value |-> None]

\* pd.DataFrame: an index (one label per row), the column names and the rows.
DataFrame(index, columns, rows) ==
    [type |-> "DataFrame", index |-> index, columns |-> columns, rows |-> rows]

RangeIndex(n) == [r \in 1..n |-> r - 1]

\* DataFrame.to_csv(index=False): the header and the text of every cell; the
\* index and the cells' python types are not written.
ToCsv(df) ==
    [fmt |-> "csv", columns |-> df.columns,
     rows |-> [r \in 1..Len(df.rows) |->
                 [c \in df.columns |-> df.rows[r][c].s]]]

\* pd.read_csv: a fresh range index; a column whose every cell reads as a
\* number becomes an integer column, any other column stays text.
ColumnIsInt(content, c) ==
    /\ Len(content.rows) > 0
    /\ \A r \in 1..Len(content.rows) : IsNumeric(content.rows[r][c])

ReadCsv(content) ==
    IF content.fmt = "csv"
    THEN [status |-> "ok",
          value |-> DataFrame(RangeIndex(Len(content.rows)), content.columns,
                     [r \in 1..Len(content.rows) |->
                        [c \in content.columns |->
                            IF ColumnIsInt(content, c)
                            THEN IntCell(StripZeros(content.rows[r][c]))
                            ELSE StrCell(content.rows[r][c])]])]
    ELSE [status |-> "DeserializationFailure", value |-> None]

\* ------------------------------------------------------------- state
VARIABLES
    cache_results,                 \* self.cache_results
    hla_alleles,                   \* "None", or "alleles" (one set per sample)
    variant_type_to_format_funcs,  \* variant type -> number of format functions
    data_files,                    \* source files present under data_dir
    vcf,                           \* k -> loci called in a sample's k-th source file
    files,                         \* cache file path -> content
    dirs,                          \* cache directories that exist
    last,                          \* the most recent call and its outcome
    procs                          \* process -> where it is in the call it runs

vars ==
    <<cache_results, hla_alleles, variant_type_to_format_funcs, data_files,
      vcf, files, dirs, last, procs>>

config ==
    <<cache_results, hla_alleles, variant_type_to_format_funcs, data_files, vcf>>

\* The cache tree as one value, threaded through a handler's steps.
Disk == [files |-> files, dirs |-> dirs]

\* I/O performed by a call: source files opened, cache paths tested for
\* existence, cache files read, cache files written, predictor runs, cache
\* files removed.
NoIO ==
    [src |-> 0, cache_probe |-> 0, cache_r |-> 0, cache_w |-> 0, predict |-> 0,
     cache_rm |-> 0]

AddIO(a, b) ==
    [src |-> a.src + b.src, cache_probe |-> a.cache_probe + b.cache_probe,
     cache_r |-> a.cache_r + b.cache_r, cache_w |-> a.cache_w + b.cache_w,
     predict |-> a.predict + b.predict, cache_rm |-> a.cache_rm + b.cache_rm]

CachePath(cache_name, sample_id, file_name) ==
    <<cache_name, Str(sample_id), file_name>>

\* ------------------------------------------------------- Cache Store
\* load_from_cache looking beside the sample's directory.
load_from_cache_wrong_dir(fs, cache_name, sample_id, file_name) ==
    IF ~cache_results
    THEN [status |-> "ok", value |-> None, io |-> NoIO]
    ELSE LET cache_file == <<cache_name, file_name>> IN
         IF cache_file \notin DOMAIN fs.files
         THEN [status |-> "ok", value |-> None,
               io |-> [NoIO EXCEPT !.cache_probe = 1]]
         ELSE LET got == IF Ext(file_name) = "csv"
                         THEN ReadCsv(fs.files[cache_file])
                         ELSE PickleLoad(fs.files[cache_file])
              IN [status |-> got.status, value |-> got.value,
                  io |-> [NoIO EXCEPT !.cache_probe = 1, !.cache_r = 1]]

load_from_cache(fs, cache_name, sample_id, file_name) ==
    IF ~cache_results
    THEN [status |-> "ok", value |-> None, io |-> NoIO]
    ELSE LET cache_file == CachePath(cache_name, sample_id, file_name) IN
         IF cache_file \notin DOMAIN fs.files
         THEN [status |-> "ok", value |-> None,
               io |-> [NoIO EXCEPT !.cache_probe = 1]]
         ELSE LET got == IF Ext(file_name) = "csv"
                         THEN ReadCsv(fs.files[cache_file])
                         ELSE PickleLoad(fs.files[cache_file])
              IN [status |-> got.status, value |-> got.value,
                  io |-> [NoIO EXCEPT !.cache_probe = 1, !.cache_r = 1]]

\* save_to_cache writing whatever cache_results says.
save_to_cache_unguarded(fs, obj, cache_name, sample_id, file_name) ==
    LET cache_file == CachePath(cache_name, sample_id, file_name) IN
    [fs |-> [files |-> (cache_file :> PickleDump(obj)) @@ fs.files,
             dirs |-> fs.dirs \cup
                        {<<cache_name>>, <<cache_name, Str(sample_id)>>}],
     io |-> [NoIO EXCEPT !.cache_probe = 1, !.cache_w = 1]]

Serialize(obj) ==
    IF obj.type = "DataFrame" THEN ToCsv(obj) ELSE PickleDump(obj)

\* save_to_cache making the sample's directory anew for every entry.
save_to_cache_fresh_dir(fs, obj, cache_name, sample_id, file_name) ==
    IF ~cache_results
    THEN [fs |-> fs, io |-> NoIO]
    ELSE LET cache_file == CachePath(cache_name, sample_id, file_name) IN
         [fs |-> [files |-> (cache_file :> Serialize(obj))
                            @@ [p \in {q \in DOMAIN fs.files :
                                          q[1] # cache_name \/ q[2] # Str(sample_id)}
                                  |-> fs.files[p]],
                  dirs |-> fs.dirs \cup
                             {<<cache_name>>, <<cache_name, Str(sample_id)>>}],
          io |-> [NoIO EXCEPT !.cache_probe = 1, !.cache_w = 1]]

save_to_cache(fs, obj, cache_name, sample_id, file_name) ==
    IF ~cache_results
    THEN [fs |-> fs, io |-> NoIO]
    ELSE LET cache_file == CachePath(cache_name, sample_id, file_name) IN
         [fs |-> [files |-> (cache_file :> Serialize(obj)) @@ fs.files,
                  dirs |-> fs.dirs \cup
                             {<<cache_name>>, <<cache_name, Str(sample_id)>>}],
          io |-> [NoIO EXCEPT !.cache_probe = 1, !.cache_w = 1]]

\* clear_cache removing the whole cache directory.
clear_cache_everything(fs, cache_name) ==
    IF <<cache_name>> \in fs.dirs THEN [files |-> <<>>, dirs |-> {}] ELSE fs

\* clear_cache removing the directory of the first sample only.
clear_cache_first_sample(fs, cache_name) ==
    [files |-> [p \in {q \in DOMAIN fs.files :
                        q[1] # cache_name \/ q[2] # Str(sample_ids[1])}
                  |-> fs.files[p]],
     dirs |-> {d \in fs.dirs : d # <<cache_name, Str(sample_ids[1])>>}]

clear_cache(fs, cache_name) ==
    IF <<cache_name>> \in fs.dirs
    THEN [files |-> [p \in {q \in DOMAIN fs.files : q[1] # cache_name}
                        |-> fs.files[p]],
          dirs |-> {d \in fs.dirs : d[1] # cache_name}]
    ELSE fs

clear_variant_cache(fs) == clear_cache(fs, variant_cache_name)

clear_neoantigen_cache(fs) == clear_cache(fs, neoantigen_cache_name)

clear_caches(fs) == clear_neoantigen_cache(clear_variant_cache(fs))

\* ------------------------------------------------- Variant Merge Engine
\* The source file the k-th format function of a variant type names for the
\* sample at sample_idx.
SourceFile(variant_type, k, sample_idx) == <<variant_type, k, sample_idx>>

Variant(variant_type, sample_idx, pos) ==
    [type |-> "Variant", variant_type |-> variant_type,
     sample |-> sample_idx, pos |-> pos]

\* set(varcode.load_vcf_fast(path).elements): the sample's calls at the loci
\* its k-th file holds.
RawSet(variant_type, k, sample_idx) ==
    {Variant(variant_type, sample_idx, pos) : pos \in vcf[k]}

\* A python set passed where one item is expected.
SetItem(members) == [type |-> "set", members |-> members]

\* VariantCollection(iterable): a collection of the items of the iterable.
VariantCollection(items) ==
    [type |-> "VariantCollection", elements |-> items]

RECURSIVE SetUnion(_)
SetUnion(sets) ==
    IF Len(sets) = 0 THEN {} ELSE Head(sets) \cup SetUnion(Tail(sets))

RECURSIVE SetIntersection(_)
SetIntersection(sets) ==
    IF Len(sets) = 1 THEN Head(sets)
    ELSE Head(sets) \cap SetIntersection(Tail(sets))

\* The merge taking the "intersection" branch for "union" too.
MergeVariantsUnionAsIntersection(combined_variants, merge_type) ==
    IF Len(combined_variants) = 1
    THEN IF merge_type = "None"
         THEN [status |-> "ok",
               value |-> VariantCollection({SetItem(combined_variants[k]) :
                                              k \in 1..Len(combined_variants)})]
         ELSE [status |-> "AssertionError", value |-> None]
    ELSE IF merge_type \notin VALID_MERGE_TYPES
         THEN [status |-> "AssertionError", value |-> None]
         ELSE [status |-> "ok",
               value |-> VariantCollection(SetIntersection(combined_variants))]

\* The merge policy over combined_variants, the list of the raw sets read.
MergeVariants(combined_variants, merge_type) ==
    IF Len(combined_variants) = 1
    THEN IF merge_type = "None"
         THEN [status |-> "ok",
               value |-> VariantCollection({SetItem(combined_variants[k]) :
                                              k \in 1..Len(combined_variants)})]
         ELSE [status |-> "AssertionError", value |-> None]
    ELSE IF merge_type \notin VALID_MERGE_TYPES
         THEN [status |-> "AssertionError", value |-> None]
         ELSE IF merge_type = "union"
              THEN [status |-> "ok",
                    value |-> VariantCollection(SetUnion(combined_variants))]
              ELSE [status |-> "ok",
                    value |-> VariantCollection(SetIntersection(combined_variants))]

\* Lines 119-124: the files are opened in order; the first absent one raises
\* IOError after the files before it were read.
MissingFuncs(variant_type, file_format_funcs, sample_idx) ==
    {k \in 1..file_format_funcs :
        SourceFile(variant_type, k, sample_idx) \notin data_files}

Min(S) == CHOOSE m \in S : \A n \in S : m <= n

\* _load_single_sample_variants caching what it has read when a later source
\* file is absent.
load_single_sample_variants_saves_partial(fs, sample_idx, file_format_funcs, variant_type, merge_type) ==
    LET sample_id == sample_ids[sample_idx]
        cached_file_name == VariantsFileName(variant_type, merge_type)
        missing == MissingFuncs(variant_type, file_format_funcs, sample_idx)
        combined_variants ==
            [k \in 1..file_format_funcs |-> RawSet(variant_type, k, sample_idx)]
        Saved(merged, io, saved) ==
            [status |-> "ok", value |-> merged.value, fs |-> saved.fs,
             io |-> AddIO(io, saved.io)]
        Merged(merged, io) ==
            IF merged.status # "ok"
            THEN [status |-> merged.status, value |-> None, fs |-> fs, io |-> io]
            ELSE Saved(merged, io,
                       save_to_cache(fs, merged.value, variant_cache_name,
                                     sample_id, cached_file_name))
        Looked(cached) ==
            IF cached.status # "ok" \/ cached.value # None
            THEN [status |-> cached.status, value |-> cached.value, fs |-> fs,
                  io |-> cached.io]
            ELSE IF missing # {}
            THEN [status |-> "IOError", value |-> None,
                  fs |-> IF Min(missing) = 1
                         THEN fs
                         ELSE save_to_cache(fs, VariantCollection(combined_variants[1]),
                                            variant_cache_name, sample_id,
                                            cached_file_name).fs,
                  io |-> AddIO(cached.io, [NoIO EXCEPT !.src = Min(missing)])]
            ELSE Merged(MergeVariants(combined_variants, merge_type),
                        AddIO(cached.io, [NoIO EXCEPT !.src = file_format_funcs]))
    IN  Looked(load_from_cache(fs, variant_cache_name, sample_id, cached_file_name))

load_single_sample_variants(fs, sample_idx, file_format_funcs, variant_type, merge_type) ==
    LET sample_id == sample_ids[sample_idx]
        cached_file_name == VariantsFileName(variant_type, merge_type)
        missing == MissingFuncs(variant_type, file_format_funcs, sample_idx)
        combined_variants ==
            [k \in 1..file_format_funcs |-> RawSet(variant_type, k, sample_idx)]
        Saved(merged, io, saved) ==
            [status |-> "ok", value |-> merged.value, fs |-> saved.fs,
             io |-> AddIO(io, saved.io)]
        Merged(merged, io) ==
            IF merged.status # "ok"
            THEN [status |-> merged.status, value |-> None, fs |-> fs, io |-> io]
            ELSE Saved(merged, io,
                       save_to_cache(fs, merged.value, variant_cache_name,
                                     sample_id, cached_file_name))
        Looked(cached) ==
            IF cached.status # "ok" \/ cached.value # None
            THEN [status |-> cached.status, value |-> cached.value, fs |-> fs,
                  io |-> cached.io]
            ELSE IF missing # {}
            THEN [status |-> "IOError", value |-> None, fs |-> fs,
                  io |-> AddIO(cached.io, [NoIO EXCEPT !.src = Min(missing)])]
            ELSE Merged(MergeVariants(combined_variants, merge_type),
                        AddIO(cached.io, [NoIO EXCEPT !.src = file_format_funcs]))
    IN  Looked(load_from_cache(fs, variant_cache_name, sample_id, cached_file_name))

\* self.variant_type_to_format_funcs[variant_type], evaluated by the caller.
FormatFuncsConfigured(variant_type) ==
    variant_type \in DOMAIN variant_type_to_format_funcs

\* load_variants leaving the loop at the first sample without variants.
RECURSIVE load_variants_loop_stops(_, _, _, _)
load_variants_loop_stops(i, acc, variant_type, merge_type) ==
    IF i > NumSamples \/ acc.status # "ok"
    THEN acc
    ELSE IF ~FormatFuncsConfigured(variant_type)
    THEN [acc EXCEPT !.status = "KeyError"]
    ELSE LET Resolved(r) ==
                 CASE r.status = "ok" ->
                        load_variants_loop_stops(i + 1,
                          [acc EXCEPT !.fs = r.fs, !.io = AddIO(acc.io, r.io),
                                      !.items = (i :> r.value) @@ acc.items],
                          variant_type, merge_type)
                   [] r.status = "IOError" ->
                        [acc EXCEPT !.io = AddIO(acc.io, r.io),
                                    !.printed = acc.printed \cup {i}]
                   [] OTHER ->
                        [acc EXCEPT !.status = r.status, !.io = AddIO(acc.io, r.io)]
         IN Resolved(load_single_sample_variants(acc.fs, i,
                         variant_type_to_format_funcs[variant_type],
                         variant_type, merge_type))

RECURSIVE load_variants_loop(_, _, _, _)
load_variants_loop(i, acc, variant_type, merge_type) ==
    IF i > NumSamples \/ acc.status # "ok"
    THEN acc
    ELSE IF ~FormatFuncsConfigured(variant_type)
    THEN [acc EXCEPT !.status = "KeyError"]
    ELSE LET Resolved(r) ==
                 CASE r.status = "ok" ->
                        [acc EXCEPT !.fs = r.fs, !.io = AddIO(acc.io, r.io),
                                    !.items = (i :> r.value) @@ acc.items]
                   [] r.status = "IOError" ->
                        [acc EXCEPT !.io = AddIO(acc.io, r.io),
                                    !.printed = acc.printed \cup {i}]
                   [] OTHER ->
                        [acc EXCEPT !.status = r.status, !.io = AddIO(acc.io, r.io)]
         IN load_variants_loop(i + 1,
              Resolved(load_single_sample_variants(acc.fs, i,
                           variant_type_to_format_funcs[variant_type],
                           variant_type, merge_type)),
              variant_type, merge_type)

load_variants(fs, variant_type, merge_type) ==
    LET start == [status |-> "ok", fs |-> fs, io |-> NoIO, items |-> <<>>,
                  printed |-> {}]
    IN  IF variant_type \notin VALID_VARIANT_TYPES
        THEN [start EXCEPT !.status = "AssertionError"]
        ELSE load_variants_loop(1, start, variant_type, merge_type)

\* ------------------------------------------------ Neoantigen Derivation
\* Stand-in for NetMHCcons + predict_epitopes_from_variants: the epitope of the
\* call at position pos binds with IC50 100 * pos and is kept when that is
\* within ic50_cutoff. Items that are not variant records make it raise.
Ic50CutoffArgs == {500, 150}

PredictedPositions(variants, ic50_cutoff) ==
    {v.pos : v \in {w \in variants.elements : 100 * w.pos <= ic50_cutoff}}

RECURSIVE EpitopeRows(_, _)
EpitopeRows(positions, from) ==
    IF positions = {} THEN <<>>
    ELSE IF from \in positions
         THEN <<[epitope |-> StrCell(<<"e", DigitOf[from]>>)]>>
              \o EpitopeRows(positions \ {from}, from + 1)
         ELSE EpitopeRows(positions, from + 1)

predict_epitopes_from_variants(variants, ic50_cutoff, predictor_fails) ==
    IF predictor_fails \/ \E v \in variants.elements : v.type # "Variant"
    THEN [status |-> "PredictorError", value |-> None]
    ELSE [status |-> "ok",
          value |-> EpitopeRows(PredictedPositions(variants, ic50_cutoff), 1)]

epitopes_to_dataframe(epitopes) ==
    DataFrame(RangeIndex(Len(epitopes)), {"epitope"}, epitopes)

\* df["sample_id"] = sample_id
TagSampleId(df, sample_id) ==
    DataFrame(df.index, df.columns \cup {"sample_id"},
              [r \in 1..Len(df.rows) |->
                 [c \in df.columns \cup {"sample_id"} |->
                    IF c = "sample_id" THEN sample_id ELSE df.rows[r][c]]])

\* _load_single_sample_neoantigens keeping the variant entry only when the
\* prediction succeeds.
load_single_sample_neoantigens_rolls_back(fs, sample_idx, variant_type, merge_type, ic50_cutoff, predictor_fails) ==
    LET sample_id == sample_ids[sample_idx]
        cached_file_name == NeoantigensFileName(variant_type, merge_type)
        Saved(df_epitopes, io, saved) ==
            [status |-> "ok", value |-> df_epitopes, fs |-> saved.fs,
             io |-> AddIO(io, saved.io)]
        Tagged(df_epitopes, variants_fs, io) ==
            Saved(df_epitopes, io,
                  save_to_cache(variants_fs, df_epitopes, neoantigen_cache_name,
                                sample_id, cached_file_name))
        Predicted(epitopes, variants_fs, io) ==
            IF epitopes.status # "ok"
            THEN [status |-> epitopes.status, value |-> None, fs |-> fs,
                  io |-> io]
            ELSE Tagged(TagSampleId(epitopes_to_dataframe(epitopes.value), sample_id),
                        variants_fs, io)
        Resolved(variants, io) ==
            IF variants.status # "ok"
            THEN [status |-> variants.status, value |-> None, fs |-> variants.fs,
                  io |-> io]
            ELSE IF hla_alleles = "None"
            THEN [status |-> "TypeError", value |-> None, fs |-> variants.fs,
                  io |-> io]
            ELSE Predicted(predict_epitopes_from_variants(variants.value, ic50_cutoff,
                                                          predictor_fails),
                           variants.fs, AddIO(io, [NoIO EXCEPT !.predict = 1]))
        WithVariants(cached, variants) == Resolved(variants, AddIO(cached.io, variants.io))
        Looked(cached) ==
            IF cached.status # "ok" \/ cached.value # None
            THEN [status |-> cached.status, value |-> cached.value, fs |-> fs,
                  io |-> cached.io]
            ELSE IF ~FormatFuncsConfigured(variant_type)
            THEN [status |-> "KeyError", value |-> None, fs |-> fs, io |-> cached.io]
            ELSE WithVariants(cached,
                     load_single_sample_variants(fs, sample_idx,
                         variant_type_to_format_funcs[variant_type],
                         variant_type, merge_type))
    IN  Looked(load_from_cache(fs, neoantigen_cache_name, sample_id, cached_file_name))

load_single_sample_neoantigens(fs, sample_idx, variant_type, merge_type, ic50_cutoff, predictor_fails) ==
    LET sample_id == sample_ids[sample_idx]
        cached_file_name == NeoantigensFileName(variant_type, merge_type)
        Saved(df_epitopes, io, saved) ==
            [status |-> "ok", value |-> df_epitopes, fs |-> saved.fs,
             io |-> AddIO(io, saved.io)]
        Tagged(df_epitopes, variants_fs, io) ==
            Saved(df_epitopes, io,
                  save_to_cache(variants_fs, df_epitopes, neoantigen_cache_name,
                                sample_id, cached_file_name))
        Predicted(epitopes, variants_fs, io) ==
            IF epitopes.status # "ok"
            THEN [status |-> epitopes.status, value |-> None, fs |-> variants_fs,
                  io |-> io]
            ELSE Tagged(TagSampleId(epitopes_to_dataframe(epitopes.value), sample_id),
                        variants_fs, io)
        Resolved(variants, io) ==
            IF variants.status # "ok"
            THEN [status |-> variants.status, value |-> None, fs |-> variants.fs,
                  io |-> io]
            ELSE IF hla_alleles = "None"
            THEN [status |-> "TypeError", value |-> None, fs |-> variants.fs,
                  io |-> io]
            ELSE Predicted(predict_epitopes_from_variants(variants.value, ic50_cutoff,
                                                          predictor_fails),
                           variants.fs, AddIO(io, [NoIO EXCEPT !.predict = 1]))
        WithVariants(cached, variants) == Resolved(variants, AddIO(cached.io, variants.io))
        Looked(cached) ==
            IF cached.status # "ok" \/ cached.value # None
            THEN [status |-> cached.status, value |-> cached.value, fs |-> fs,
                  io |-> cached.io]
            ELSE IF ~FormatFuncsConfigured(variant_type)
            THEN [status |-> "KeyError", value |-> None, fs |-> fs, io |-> cached.io]
            ELSE WithVariants(cached,
                     load_single_sample_variants(fs, sample_idx,
                         variant_type_to_format_funcs[variant_type],
                         variant_type, merge_type))
    IN  Looked(load_from_cache(fs, neoantigen_cache_name, sample_id, cached_file_name))

\* pd.concat(dfs): the rows of every table in order, each keeping its labels.
Concat(a, b) ==
    DataFrame(a.index \o b.index, a.columns \cup b.columns, a.rows \o b.rows)

\* load_neoantigens leaving out a sample whose resolution fails, the way
\* load_variants does.
RECURSIVE load_neoantigens_loop_skips(_, _, _, _, _, _)
load_neoantigens_loop_skips(i, acc, variant_type, merge_type, ic50_cutoff, failing) ==
    IF i > NumSamples
    THEN acc
    ELSE LET Resolved(r) ==
                 IF r.status = "ok"
                 THEN [acc EXCEPT !.fs = r.fs, !.io = AddIO(acc.io, r.io),
                                  !.dfs = Append(acc.dfs, r.value)]
                 ELSE [acc EXCEPT !.fs = r.fs, !.io = AddIO(acc.io, r.io)]
         IN load_neoantigens_loop_skips(i + 1,
              Resolved(load_single_sample_neoantigens(acc.fs, i, variant_type,
                           merge_type, ic50_cutoff, i \in failing)),
              variant_type, merge_type, ic50_cutoff, failing)

RECURSIVE load_neoantigens_loop(_, _, _, _, _, _)
load_neoantigens_loop(i, acc, variant_type, merge_type, ic50_cutoff, failing) ==
    IF i > NumSamples \/ acc.status # "ok"
    THEN acc
    ELSE LET Resolved(r) ==
                 IF r.status = "ok"
                 THEN [acc EXCEPT !.fs = r.fs, !.io = AddIO(acc.io, r.io),
                                  !.dfs = Append(acc.dfs, r.value)]
                 ELSE [acc EXCEPT !.status = r.status, !.fs = r.fs,
                                  !.io = AddIO(acc.io, r.io)]
         IN load_neoantigens_loop(i + 1,
              Resolved(load_single_sample_neoantigens(acc.fs, i, variant_type,
                           merge_type, ic50_cutoff, i \in failing)),
              variant_type, merge_type, ic50_cutoff, failing)

RECURSIVE ConcatAll(_)
ConcatAll(dfs) ==
    IF Len(dfs) = 1 THEN Head(dfs) ELSE Concat(Head(dfs), ConcatAll(Tail(dfs)))

\* load_neoantigens without its precondition on hla_alleles.
load_neoantigens_unchecked(fs, variant_type, merge_type, ic50_cutoff, failing) ==
    load_neoantigens_loop(1, [status |-> "ok", fs |-> fs, io |-> NoIO, dfs |-> <<>>],
                          variant_type, merge_type, ic50_cutoff, failing)

\* Line 151: pd.concat raises ValueError when handed no table.
load_neoantigens(fs, variant_type, merge_type, ic50_cutoff, failing) ==
    LET start == [status |-> "ok", fs |-> fs, io |-> NoIO, dfs |-> <<>>]
        Looped(r) ==
            IF r.status = "ok" /\ r.dfs = <<>>
            THEN [r EXCEPT !.status = "ValueError"]
            ELSE r
    IN  IF hla_alleles = "None"
        THEN [start EXCEPT !.status = "AssertionError"]
        ELSE Looped(load_neoantigens_loop(1, start, variant_type, merge_type,
                                          ic50_cutoff, failing))

\* ------------------------------------------------------------ calls
Call(op, args, status, value, io) ==
    [op |-> op, args |-> args, status |-> status, value |-> value, io |-> io]

Dict(items) == [type |-> "dict", items |-> items]

\* Values a caller hands to save_to_cache: a pickled kind and tables, one
\* with the default index, one with its own labels, one with an all-digit
\* text column.
SavedCollection == VariantCollection({Variant("snv", 1, pos) : pos \in 1..2})

PlainTable ==
    DataFrame(RangeIndex(1), {"epitope", "sample_id"},
              <<[epitope |-> StrCell(<<"e", "1">>), sample_id |-> SampleIdPool[1]]>>)

LabelledTable ==
    DataFrame(<<5>>, {"epitope", "sample_id"},
              <<[epitope |-> StrCell(<<"e", "1">>), sample_id |-> SampleIdPool[1]]>>)

DigitTextTable ==
    DataFrame(RangeIndex(1), {"epitope", "sample_id"},
              <<[epitope |-> StrCell(<<"e", "1">>), sample_id |-> SampleIdPool[2]]>>)

SaveValues == {SavedCollection, PlainTable, LabelledTable, DigitTextTable}

\* File names a caller of the store uses: one of each extension.
StoreFileNames ==
    {VariantsFileName("snv", "union"), NeoantigensFileName("snv", "union")}

LoadFromCache(cache_name, sample_idx, file_name) ==
    LET Return(r) ==
            /\ last' = Call("load_from_cache", <<cache_name, sample_idx, file_name>>,
                            r.status, r.value, r.io)
            /\ UNCHANGED <<config, files, dirs, procs>>
    IN  Return(load_from_cache(Disk, cache_name, sample_ids[sample_idx], file_name))

SaveToCache(obj, cache_name, sample_idx, file_name) ==
    LET Return(r) ==
            /\ files' = r.fs.files
            /\ dirs' = r.fs.dirs
            /\ last' = Call("save_to_cache", <<obj, cache_name, sample_idx, file_name>>,
                            "ok", None, r.io)
            /\ UNCHANGED <<config, procs>>
    IN  Return(save_to_cache(Disk, obj, cache_name, sample_ids[sample_idx], file_name))

LoadVariants(variant_type, merge_type) ==
    LET Return(r) ==
            /\ files' = r.fs.files
            /\ dirs' = r.fs.dirs
            /\ last' = Call("load_variants", <<variant_type, merge_type>>, r.status,
                            IF r.status = "ok" THEN Dict(r.items) ELSE None, r.io)
            /\ UNCHANGED <<config, procs>>
    IN  Return(load_variants(Disk, variant_type, merge_type))

\* A direct call of _load_single_sample_variants with the format functions
\* configured for the variant type, as load_variants passes them.
ResolveVariants(sample_idx, variant_type, merge_type) ==
    LET Return(r) ==
            /\ files' = r.fs.files
            /\ dirs' = r.fs.dirs
            /\ last' = Call("resolve_variants",
                            <<sample_idx, variant_type, merge_type>>,
                            r.status, r.value, r.io)
            /\ UNCHANGED <<config, procs>>
    IN  Return(IF FormatFuncsConfigured(variant_type)
               THEN load_single_sample_variants(Disk, sample_idx,
                        variant_type_to_format_funcs[variant_type],
                        variant_type, merge_type)
               ELSE [status |-> "KeyError", value |-> None, fs |-> Disk,
                     io |-> NoIO])

LoadNeoantigens(variant_type, merge_type, ic50_cutoff, failing) ==
    LET Return(r) ==
            /\ files' = r.fs.files
            /\ dirs' = r.fs.dirs
            /\ last' = Call("load_neoantigens",
                            <<variant_type, merge_type, ic50_cutoff, failing>>,
                            r.status,
                            IF r.status = "ok" THEN ConcatAll(r.dfs) ELSE None, r.io)
            /\ UNCHANGED <<config, procs>>
    IN  Return(load_neoantigens(Disk, variant_type, merge_type, ic50_cutoff, failing))

ResolveNeoantigens(sample_idx, variant_type, merge_type, ic50_cutoff, predictor_fails) ==
    LET Return(r) ==
            /\ files' = r.fs.files
            /\ dirs' = r.fs.dirs
            /\ last' = Call("resolve_neoantigens",
                            <<sample_idx, variant_type, merge_type, ic50_cutoff>>,
                            r.status, r.value, r.io)
            /\ UNCHANGED <<config, procs>>
    IN  Return(load_single_sample_neoantigens(Disk, sample_idx, variant_type,
                   merge_type, ic50_cutoff, predictor_fails))

Clear(op, fs) ==
    /\ files' = fs.files
    /\ dirs' = fs.dirs
    /\ last' = Call(op, <<>>, "ok", None,
                    [NoIO EXCEPT !.cache_rm = Cardinality(DOMAIN files)
                                              - Cardinality(DOMAIN fs.files)])
    /\ UNCHANGED <<config, procs>>

ClearVariantCache == Clear("clear_variant_cache", clear_variant_cache(Disk))

ClearNeoantigenCache == Clear("clear_neoantigen_cache", clear_neoantigen_cache(Disk))

ClearCaches == Clear("clear_caches", clear_caches(Disk))

\* ------------------------------------------------- concurrent callers
\* Processes that share cache_dir, each running one call at a time, a step
\* of which is one file-system operation of the code.
Procs == {"p", "q"}

Idle ==
    [pc |-> "idle", op |-> "none", args |-> <<>>, obj |-> None,
     status |-> "ok", value |-> None, src |-> 0]

\* Where save_to_cache writes for the call the process runs.
SaveTarget(proc) ==
    IF proc.op = "save_to_cache"
    THEN [cache_name |-> proc.args[1], sample_id |-> sample_ids[proc.args[2]],
          file_name |-> proc.args[3]]
    ELSE [cache_name |-> variant_cache_name, sample_id |-> sample_ids[proc.args[1]],
          file_name |-> VariantsFileName(proc.args[2], proc.args[3])]

\* Lines 81-82.
SampleCacheDir(target) == <<target.cache_name, Str(target.sample_id)>>

\* Line 86: os.makedirs raises OSError when the leaf directory is there.
makedirs(fs, target) ==
    IF SampleCacheDir(target) \in fs.dirs
    THEN [status |-> "OSError", fs |-> fs]
    ELSE [status |-> "ok",
          fs |-> [fs EXCEPT !.dirs = @ \cup {<<target.cache_name>>,
                                              SampleCacheDir(target)}]]

\* The file written only when it is not there yet.
write_cache_file_keep_existing(fs, obj, target) ==
    [fs EXCEPT !.files =
        @ @@ (CachePath(target.cache_name, target.sample_id, target.file_name)
                :> Serialize(obj))]

\* Lines 88-92: the file is written whether or not it is there.
write_cache_file(fs, obj, target) ==
    [fs EXCEPT !.files =
        (CachePath(target.cache_name, target.sample_id, target.file_name)
            :> Serialize(obj)) @@ @]

Finished(proc, status, value) ==
    [proc EXCEPT !.pc = "done", !.status = status, !.value = value]

Step(p, proc, fs) ==
    /\ procs' = [procs EXCEPT ![p] = proc]
    /\ files' = fs.files
    /\ dirs' = fs.dirs
    /\ UNCHANGED <<config, last>>

\* A process calls save_to_cache (lines 77-79).
BeginSave(p, obj, cache_name, sample_idx, file_name) ==
    /\ procs[p].pc \in {"idle", "done"}
    /\ Step(p, [Idle EXCEPT !.op = "save_to_cache",
                            !.args = <<cache_name, sample_idx, file_name>>,
                            !.obj = obj,
                            !.pc = IF cache_results THEN "exists" ELSE "done"],
            Disk)

\* A process calls _load_single_sample_variants (lines 109-114).
BeginResolve(p, sample_idx, variant_type, merge_type) ==
    /\ procs[p].pc \in {"idle", "done"}
    /\ FormatFuncsConfigured(variant_type)
    /\ Step(p, [Idle EXCEPT !.op = "resolve_variants",
                            !.args = <<sample_idx, variant_type, merge_type>>,
                            !.pc = "lookup"],
            Disk)

\* Lines 115-117.
Lookup(p) ==
    LET proc == procs[p]
        target == SaveTarget(proc)
        Looked(cached) ==
            IF cached.status # "ok" \/ cached.value # None
            THEN Step(p, Finished(proc, cached.status, cached.value), Disk)
            ELSE Step(p, [proc EXCEPT !.pc = "compute"], Disk)
    IN  /\ proc.pc = "lookup"
        /\ Looked(load_from_cache(Disk, target.cache_name, target.sample_id,
                                  target.file_name))

\* Lines 119-134.
Compute(p) ==
    LET proc == procs[p]
        sample_idx == proc.args[1]
        variant_type == proc.args[2]
        file_format_funcs == variant_type_to_format_funcs[variant_type]
        missing == MissingFuncs(variant_type, file_format_funcs, sample_idx)
        Merged(merged) ==
            IF merged.status # "ok"
            THEN Step(p, [Finished(proc, merged.status, None)
                             EXCEPT !.src = file_format_funcs], Disk)
            ELSE Step(p, [proc EXCEPT !.obj = merged.value,
                                      !.src = file_format_funcs,
                                      !.pc = IF cache_results THEN "exists"
                                             ELSE "done",
                                      !.value = merged.value], Disk)
    IN  /\ proc.pc = "compute"
        /\ IF missing # {}
           THEN Step(p, [Finished(proc, "IOError", None)
                            EXCEPT !.src = Min(missing)], Disk)
           ELSE Merged(MergeVariants(
                    [k \in 1..file_format_funcs |->
                        RawSet(variant_type, k, sample_idx)], proc.args[3]))

\* Line 85: path.exists(sample_cache_dir).
Exists(p) ==
    /\ procs[p].pc = "exists"
    /\ Step(p, [procs[p] EXCEPT !.pc =
                   IF SampleCacheDir(SaveTarget(procs[p])) \in dirs
                   THEN "write" ELSE "makedirs"], Disk)

\* Line 86.
Makedirs(p) ==
    LET proc == procs[p]
        Made(r) ==
            IF r.status # "ok"
            THEN Step(p, Finished(proc, r.status, None), r.fs)
            ELSE Step(p, [proc EXCEPT !.pc = "write"], r.fs)
    IN  /\ proc.pc = "makedirs"
        /\ Made(makedirs(Disk, SaveTarget(proc)))

\* Lines 88-92, and the return of the caller (line 138).
Write(p) ==
    /\ procs[p].pc = "write"
    /\ Step(p, Finished(procs[p], "ok", procs[p].value),
            write_cache_file(Disk, procs[p].obj, SaveTarget(procs[p])))

\* ------------------------------------------------------ specifications
\* Cohorts: one variant type is given format functions, any number of them
\* up to MaxFuncs; the other is left at its default, None.
FormatFuncConfigs(variant_types) ==
    UNION {[{vt} -> 1..MaxFuncs] : vt \in variant_types}

AllSourceFiles(funcs) ==
    {f \in (VALID_VARIANT_TYPES \X (1..MaxFuncs) \X SampleIdx) :
        f[1] \in DOMAIN funcs /\ f[2] <= funcs[f[1]]}

\* The k-th source file of every sample holds the calls at loci k and k+1, so
\* consecutive files overlap in one call.
WindowLayout == [k \in 1..MaxFuncs |-> k..(k + 1)]

\* Cohort(...) over a data directory lacking at most MaxMissing source files.
InitConfig(cache_choices, hla_choices, variant_types) ==
    /\ vcf = WindowLayout
    /\ cache_results \in cache_choices
    /\ hla_alleles \in hla_choices
    /\ variant_type_to_format_funcs \in FormatFuncConfigs(variant_types)
    /\ \E missing \in SUBSET AllSourceFiles(variant_type_to_format_funcs) :
          /\ Cardinality(missing) <= MaxMissing
          /\ data_files = AllSourceFiles(variant_type_to_format_funcs) \ missing

EmptyDisk == [files |-> <<>>, dirs |-> {}]

\* What an earlier session with caching enabled left under cache_dir.
LeftoverDisk ==
    LET merged == VariantCollection({Variant("snv", 1, pos) : pos \in 1..3})
        table == TagSampleId(epitopes_to_dataframe(EpitopeRows({1, 2, 3}, 1)),
                             sample_ids[1])
    IN  [files |-> (CachePath(variant_cache_name, sample_ids[1],
                              VariantsFileName("snv", "union")) :> PickleDump(merged))
                   @@ (CachePath(neoantigen_cache_name, sample_ids[1],
                                 NeoantigensFileName("snv", "union")) :> ToCsv(table)),
         dirs |-> {<<variant_cache_name>>, <<neoantigen_cache_name>>,
                   <<variant_cache_name, Str(sample_ids[1])>>,
                   <<neoantigen_cache_name, Str(sample_ids[1])>>}]

InitDisk(choices) ==
    /\ \E fs \in choices : files = fs.files /\ dirs = fs.dirs
    /\ last = Call("init", <<>>, "ok", None, NoIO)
    /\ procs = [p \in Procs |-> Idle]

HlaChoices == {"None", "alleles"}

Init ==
    /\ InitConfig(BOOLEAN, {"alleles"}, VALID_VARIANT_TYPES)
    /\ InitDisk({EmptyDisk})

\* Merge types the neoantigen calls are tried with: one of the two valid for
\* several format functions, and the one valid for a single one.
NeoMergeTypeArgs == {"None", "union"}

\* Variant types the neoantigen calls are tried with: the configured one and
\* one outside the valid set.
NeoVariantTypeArgs == {"snv", "cnv"}

\* The predictor fails for no sample, for the first or for the last.
FailingArgs == {{}, {1}, {NumSamples}}

VariantCall ==
    \/ \E vt \in VariantTypeArgs, mt \in MergeTypeArgs : LoadVariants(vt, mt)
    \/ \E i \in SampleIdx, vt \in VariantTypeArgs, mt \in MergeTypeArgs :
          ResolveVariants(i, vt, mt)

\* (variant_type, merge_type, ic50_cutoff) of the neoantigen calls: every
\* combination for a valid variant type, one for the other.
NeoCallArgs ==
    {a \in NeoVariantTypeArgs \X NeoMergeTypeArgs \X Ic50CutoffArgs :
        a[1] \in VALID_VARIANT_TYPES \/ (a[2] = "None" /\ a[3] = 500)}

NeoantigenCall ==
    \/ \E a \in NeoCallArgs, failing \in FailingArgs :
          LoadNeoantigens(a[1], a[2], a[3], failing)
    \/ \E i \in SampleIdx, a \in NeoCallArgs, fails \in BOOLEAN :
          ResolveNeoantigens(i, a[1], a[2], a[3], fails)

\* A caller of the store keeps at most MaxStoreFiles files in it.
StoreCall ==
    \/ \E cn \in CacheNames, i \in SampleIdx, fn \in StoreFileNames :
          LoadFromCache(cn, i, fn)
    \/ \E obj \in SaveValues, cn \in CacheNames, i \in SampleIdx,
          fn \in StoreFileNames :
          /\ \/ CachePath(cn, sample_ids[i], fn) \in DOMAIN files
             \/ Cardinality(DOMAIN files) < MaxStoreFiles
          /\ SaveToCache(obj, cn, i, fn)

ClearCall ==
    \/ ClearVariantCache
    \/ ClearNeoantigenCache
    \/ ClearCaches

\* Variant loading on a cohort.
Next ==
    \/ VariantCall
    \/ ClearCall

Spec == Init /\ [][Next]_vars

\* Neoantigen derivation on a cohort.
NextNeo ==
    \/ NeoantigenCall
    \/ ClearCall

InitNeo ==
    /\ InitConfig(BOOLEAN, HlaChoices, {"snv"})
    /\ InitDisk({EmptyDisk})

SpecNeo == InitNeo /\ [][NextNeo]_vars

\* The cache store used directly.
NextStore ==
    \/ StoreCall
    \/ ClearCall

InitStore ==
    /\ InitConfig(BOOLEAN, {"alleles"}, {"snv"})
    /\ InitDisk({EmptyDisk})

SpecStore == InitStore /\ [][NextStore]_vars

\* Variant resolution over every layout of the source files: each holds any
\* set of calls at the loci 1..NumPositions, and none is missing.
InitMerge ==
    /\ cache_results \in BOOLEAN
    /\ hla_alleles = "alleles"
    /\ variant_type_to_format_funcs \in FormatFuncConfigs({"snv"})
    /\ vcf \in [1..variant_type_to_format_funcs["snv"] -> SUBSET (1..NumPositions)]
    /\ data_files = AllSourceFiles(variant_type_to_format_funcs)
    /\ InitDisk({EmptyDisk})

NextMerge ==
    \E i \in SampleIdx, mt \in MergeTypeArgs : ResolveVariants(i, "snv", mt)

SpecMerge == InitMerge /\ [][NextMerge]_vars

\* A cohort built with cache_results=False over a cache directory that may
\* hold entries already.
InitNoCache ==
    /\ InitConfig({FALSE}, HlaChoices, {"snv"})
    /\ InitDisk({EmptyDisk, LeftoverDisk})

NextNoCache ==
    \/ VariantCall
    \/ NeoantigenCall
    \/ StoreCall

SpecNoCache == InitNoCache /\ [][NextNoCache]_vars

\* The life of cache entries: loads from the store, variant loading and
\* neoantigen derivation on a cohort with caching enabled, and clears.
LifeMergeTypeArgs == {"None", "union", "intersection"}

LifeCall ==
    \/ \E cn \in CacheNames, i \in SampleIdx, fn \in StoreFileNames :
          LoadFromCache(cn, i, fn)
    \/ \E mt \in LifeMergeTypeArgs : LoadVariants("snv", mt)
    \/ \E mt \in LifeMergeTypeArgs, failing \in FailingArgs :
          LoadNeoantigens("snv", mt, 500, failing)

NextLife ==
    \/ LifeCall
    \/ ClearCall

InitLife ==
    /\ InitConfig({TRUE}, {"alleles"}, {"snv"})
    /\ InitDisk({EmptyDisk})

SpecLife == InitLife /\ [][NextLife]_vars

\* Two processes on one cohort's cache, caching enabled: each saves a value
\* under a sample's variant entry or resolves the sample's variants.
ConcSaveValues == {SavedCollection, PlainTable}

ConcMergeTypeArgs == {"None", "union"}

ConcFileName == VariantsFileName("snv", "union")

\* The samples the processes work on: the first and the last.
ConcSamples == {1, NumSamples}

NextConc ==
    \/ \E p \in Procs, obj \in ConcSaveValues, i \in ConcSamples :
          BeginSave(p, obj, variant_cache_name, i, ConcFileName)
    \/ \E p \in Procs, i \in ConcSamples, mt \in ConcMergeTypeArgs :
          BeginResolve(p, i, "snv", mt)
    \/ \E p \in Procs : Lookup(p)
    \/ \E p \in Procs : Compute(p)
    \/ \E p \in Procs : Exists(p)
    \/ \E p \in Procs : Makedirs(p)
    \/ \E p \in Procs : Write(p)

\* A cohort with MaxFuncs snv format functions, every source file there or
\* the first one of the first sample missing.
InitConc ==
    /\ vcf = WindowLayout
    /\ cache_results = TRUE
    /\ hla_alleles = "alleles"
    /\ variant_type_to_format_funcs = [vt \in {"snv"} |-> MaxFuncs]
    /\ \E missing \in SUBSET {SourceFile("snv", 1, 1)} :
          data_files = AllSourceFiles(variant_type_to_format_funcs) \ missing
    /\ InitDisk({EmptyDisk})

SpecConc == InitConc /\ [][NextConc]_vars

\* ------------------------------------------------------------ claims
IsResolveVariants(call) == call.op = "resolve_variants"

IsClear(call) ==
    call.op \in {"clear_variant_cache", "clear_neoantigen_cache", "clear_caches"}

VariantEntry(i, vt, mt) ==
    CachePath(variant_cache_name, sample_ids[i], VariantsFileName(vt, mt))

\* The call resolve_variants(i, vt, mt) finds no entry to serve.
VariantCacheMiss(i, vt, mt) ==
    ~cache_results \/ VariantEntry(i, vt, mt) \notin DOMAIN files

\* C1: with caching enabled, a successful resolve_variants call leaves its
\* result in the variant cache under its arguments; the entry stays as it is
\* through every later call that is not a clear; and a resolve_variants call
\* that finds the entry returns the collection it holds, equal to the first
\* result, without opening a source file.
C1_ResolveTwice ==
    [][cache_results =>
        /\ (IsResolveVariants(last') /\ last'.status = "ok") =>
              LET e == VariantEntry(last'.args[1], last'.args[2], last'.args[3])
              IN  /\ e \in DOMAIN files'
                  /\ PickleLoad(files'[e]).value = last'.value
        /\ ~IsClear(last') =>
              \A e \in DOMAIN files : e \in DOMAIN files' /\ files'[e] = files[e]
        /\ IsResolveVariants(last') =>
              LET e == VariantEntry(last'.args[1], last'.args[2], last'.args[3])
              IN  e \in DOMAIN files =>
                    /\ last'.status = "ok"
                    /\ last'.value = files[e].obj
                    /\ last'.io.src = 0
                    /\ last'.io.cache_r = 1
    ]_vars

\* C1 witness: a resolve_variants call was served from the cache.
C1_Witness ==
    /\ cache_results
    /\ IsResolveVariants(last)
    /\ last.status = "ok"
    /\ last.io.src = 0
    /\ last.io.cache_r = 1
    /\ last.value.type = "VariantCollection"

\* The raw sets resolve_variants(i, vt, ...) loads on a miss.
LoadedRawSets(i, vt) ==
    {RawSet(vt, k, i) : k \in 1..variant_type_to_format_funcs[vt]}

\* resolve_variants(i, vt, mt) is configured and every source file is there.
AllSourcesPresent(i, vt) ==
    /\ FormatFuncsConfigured(vt)
    /\ MissingFuncs(vt, variant_type_to_format_funcs[vt], i) = {}

\* C2: on a cache miss with two or more format functions and every source
\* file present, resolve_variants returns the collection of exactly the
\* variants in some loaded raw set for "union", and of exactly the variants
\* in every loaded raw set for "intersection", after reading each source file
\* once.
C2_MergeIsSetUnionOrIntersection ==
    [][(/\ IsResolveVariants(last')
        /\ AllSourcesPresent(last'.args[1], last'.args[2])
        /\ variant_type_to_format_funcs[last'.args[2]] >= 2
        /\ last'.args[3] \in VALID_MERGE_TYPES
        /\ VariantCacheMiss(last'.args[1], last'.args[2], last'.args[3]))
       => LET raw == LoadedRawSets(last'.args[1], last'.args[2])
              any == UNION raw
          IN  /\ last'.status = "ok"
              /\ last'.value.type = "VariantCollection"
              /\ last'.args[3] = "union" => last'.value.elements = any
              /\ last'.args[3] = "intersection" =>
                    last'.value.elements = {v \in any : \A r \in raw : v \in r}
              /\ last'.io.src = variant_type_to_format_funcs[last'.args[2]]
    ]_vars

\* C2 witness: a union was computed from source files none of which holds
\* all of it.
C2_Witness ==
    /\ IsResolveVariants(last)
    /\ last.status = "ok"
    /\ last.args[3] = "union"
    /\ last.io.src >= 2
    /\ \A r \in LoadedRawSets(last.args[1], last.args[2]) : last.value.elements # r

\* The variant type and merge type a variant call was made with.
CallVariantType(call) ==
    IF call.op = "load_variants" THEN call.args[1] ELSE call.args[2]

CallMergeType(call) ==
    IF call.op = "load_variants" THEN call.args[2] ELSE call.args[3]

IsVariantCall(call) == call.op \in {"resolve_variants", "load_variants"}

\* How many format functions the call's variant type has, 0 when it has none.
FuncCount(vt) ==
    IF FormatFuncsConfigured(vt) THEN variant_type_to_format_funcs[vt] ELSE 0

\* C3: with exactly one format function and merge_type None, resolve_variants
\* on a cache miss with the source file present returns a collection whose
\* elements are the variant records of the one loaded raw set.
C3_SingleSourcePassedThrough ==
    [][(/\ IsResolveVariants(last')
        /\ FuncCount(last'.args[2]) = 1
        /\ AllSourcesPresent(last'.args[1], last'.args[2])
        /\ last'.args[3] = "None"
        /\ VariantCacheMiss(last'.args[1], last'.args[2], last'.args[3]))
       => /\ last'.status = "ok"
          /\ last'.value.type = "VariantCollection"
          /\ last'.value.elements = RawSet(last'.args[2], 1, last'.args[1])
    ]_vars

\* C4: with exactly one format function configured for the variant type,
\* every resolve_variants call and every load_variants call with a merge_type
\* other than None fails with the assertion's error.
C4_SingleSourceRejectsMergeType ==
    [][(/\ IsVariantCall(last')
        /\ FuncCount(CallVariantType(last')) = 1
        /\ CallMergeType(last') # "None")
       => last'.status = "AssertionError"
    ]_vars

\* C5: with two or more format functions configured for the variant type,
\* every resolve_variants call with a merge_type outside {union, intersection}
\* fails with the assertion's error.
C5_MultiSourceRejectsMergeType ==
    [][(/\ IsResolveVariants(last')
        /\ FuncCount(last'.args[2]) >= 2
        /\ last'.args[3] \notin VALID_MERGE_TYPES)
       => last'.status = "AssertionError"
    ]_vars

\* The merge type suits the number of format functions of the variant type.
ValidVariantArgs(vt, mt) ==
    \/ FuncCount(vt) = 1 /\ mt = "None"
    \/ FuncCount(vt) >= 2 /\ mt \in VALID_MERGE_TYPES

\* C6: for valid (variant_type, merge_type), load_variants returns, whatever
\* source files are missing, a mapping whose keys are exactly the samples
\* served from the cache or having every source file, each mapped to the
\* collection its own resolution gives; a sample lacking a source file is
\* left out and the samples after it are still there.
C6_LoadVariantsSkipsMissing ==
    [][(/\ last'.op = "load_variants"
        /\ ValidVariantArgs(last'.args[1], last'.args[2]))
       => LET vt == last'.args[1]
              mt == last'.args[2]
              resolved == {i \in SampleIdx :
                             \/ ~VariantCacheMiss(i, vt, mt)
                             \/ AllSourcesPresent(i, vt)}
          IN  /\ last'.status = "ok"
              /\ last'.value.type = "dict"
              /\ DOMAIN last'.value.items = resolved
              /\ \A i \in resolved :
                    last'.value.items[i] =
                        load_single_sample_variants(Disk, i,
                            variant_type_to_format_funcs[vt], vt, mt).value
    ]_vars

\* C6 witness: load_variants returned a mapping without a sample and with a
\* sample that comes after it.
C6_Witness ==
    /\ last.op = "load_variants"
    /\ last.status = "ok"
    /\ \E i, j \in SampleIdx :
          /\ i < j
          /\ i \notin DOMAIN last.value.items
          /\ ~AllSourcesPresent(i, last.args[1])
          /\ j \in DOMAIN last.value.items

\* C7: with caching enabled, load(category, sample_id, file_name) right after
\* save(value, category, sample_id, file_name) returns a value equal to the
\* one saved.
C7_SaveLoadRoundTrip ==
    [][(/\ cache_results
        /\ last.op = "save_to_cache"
        /\ last'.op = "load_from_cache"
        /\ last'.args = <<last.args[2], last.args[3], last.args[4]>>)
       => /\ last'.status = "ok"
          /\ last'.value = last.args[1]
    ]_vars

\* C8: with caching disabled no call creates, changes or removes a file or a
\* directory of the cache, save_to_cache writes nothing, and load_from_cache
\* reports absent whether or not the entry's file exists.
C8_DisabledCacheUntouched ==
    [][~cache_results =>
        /\ files' = files
        /\ dirs' = dirs
        /\ last'.io.cache_w = 0
        /\ last'.op = "load_from_cache" =>
              last'.status = "ok" /\ last'.value = None
    ]_vars

\* C8 witness: caching is disabled and load_from_cache reported absent for an
\* entry whose file is on disk.
C8_Witness ==
    /\ ~cache_results
    /\ last.op = "load_from_cache"
    /\ last.value = None
    /\ CachePath(last.args[1], sample_ids[last.args[2]], last.args[3]) \in DOMAIN files

EntriesOf(fl, cache_name) == {p \in DOMAIN fl : p[1] = cache_name}

\* Every file and directory of the category is there afterwards, unchanged.
CategoryKept(cache_name) ==
    /\ \A p \in EntriesOf(files, cache_name) : p \in DOMAIN files' /\ files'[p] = files[p]
    /\ EntriesOf(files', cache_name) \subseteq EntriesOf(files, cache_name)
    /\ {d \in dirs : d[1] = cache_name} = {d \in dirs' : d[1] = cache_name}

\* C9: clear_variant_cache leaves every neoantigen-cache entry present and
\* unchanged, and clear_neoantigen_cache every variant-cache entry.
C9_ClearIsolation ==
    [][/\ last'.op = "clear_variant_cache" => CategoryKept(neoantigen_cache_name)
       /\ last'.op = "clear_neoantigen_cache" => CategoryKept(variant_cache_name)
    ]_vars

\* C9 witness: the variant cache was cleared after entries were written in
\* both categories (a neoantigen entry is only written once the sample's
\* variant entry is there), and neoantigen entries are still there.
C9_Witness ==
    /\ last.op = "clear_variant_cache"
    /\ hla_alleles = "alleles"
    /\ EntriesOf(files, variant_cache_name) = {}
    /\ <<variant_cache_name>> \notin dirs
    /\ EntriesOf(files, neoantigen_cache_name) # {}

\* C10: on a cohort without HLA alleles load_neoantigens fails on its
\* assertion having done no I/O: no cache path tested, read or written, no
\* source file opened, no predictor run, the cache tree as it was.
C10_NoHlaFailsBeforeIO ==
    [][(last'.op = "load_neoantigens" /\ hla_alleles = "None")
       => /\ last'.status = "AssertionError"
          /\ last'.io = NoIO
          /\ files' = files
          /\ dirs' = dirs
    ]_vars

\* C10 witness: load_neoantigens with valid arguments failed on a cohort
\* without HLA alleles while the cache held the variants of its first sample
\* under the call's variant type and merge type.
C10_Witness ==
    /\ last.op = "load_neoantigens"
    /\ hla_alleles = "None"
    /\ last.status = "AssertionError"
    /\ ValidVariantArgs(last.args[1], last.args[2])
    /\ VariantEntry(1, last.args[1], last.args[2]) \in DOMAIN files

IsNeoantigenCall(call) == call.op \in {"resolve_neoantigens", "load_neoantigens"}

NeoantigenEntry(i, vt, mt) ==
    CachePath(neoantigen_cache_name, sample_ids[i], NeoantigensFileName(vt, mt))

\* The samples a neoantigen call resolves, in order.
CallSamples(call) ==
    IF call.op = "resolve_neoantigens" THEN {call.args[1]} ELSE SampleIdx

NeoCallVariantType(call) ==
    IF call.op = "resolve_neoantigens" THEN call.args[2] ELSE call.args[1]

NeoCallMergeType(call) ==
    IF call.op = "resolve_neoantigens" THEN call.args[3] ELSE call.args[2]

\* C11: a call with a variant_type outside {snv, indel} fails with the
\* assertion's error on every path that resolves variants: load_variants,
\* and resolve_neoantigens or load_neoantigens when the neoantigen cache does
\* not serve the sample.
C11_UnknownVariantTypeRejected ==
    [][/\ (last'.op = "load_variants" /\ last'.args[1] \notin VALID_VARIANT_TYPES)
            => last'.status = "AssertionError"
       /\ (/\ IsNeoantigenCall(last')
           /\ NeoCallVariantType(last') \notin VALID_VARIANT_TYPES
           /\ \E i \in CallSamples(last') :
                 \/ ~cache_results
                 \/ NeoantigenEntry(i, NeoCallVariantType(last'),
                                    NeoCallMergeType(last')) \notin DOMAIN files)
            => last'.status = "AssertionError"
    ]_vars

\* The table resolve_neoantigens gives for the sample from the cache tree as
\* it is, the predictor working.
SampleTable(i, vt, mt, ic50_cutoff) ==
    load_single_sample_neoantigens(Disk, i, vt, mt, ic50_cutoff, FALSE).value

\* The rows of the tables of the samples 1..n, in order.
RECURSIVE RowsOfSamples(_, _, _, _)
RowsOfSamples(n, vt, mt, ic50_cutoff) ==
    IF n = 0 THEN <<>>
    ELSE RowsOfSamples(n - 1, vt, mt, ic50_cutoff)
         \o SampleTable(n, vt, mt, ic50_cutoff).rows

\* Every row of the table names the sample.
RowsCarry(table, sample_id) ==
    /\ "sample_id" \in table.columns
    /\ \A r \in 1..Len(table.rows) : table.rows[r].sample_id = sample_id

\* The table load_neoantigens returns is the per-sample tables one after the
\* other.
ConcatOfSampleTables ==
    (last'.op = "load_neoantigens" /\ last'.status = "ok")
       => /\ last'.value.type = "DataFrame"
          /\ last'.value.rows =
                RowsOfSamples(NumSamples, last'.args[1], last'.args[2], last'.args[3])

\* C12: every row of a table resolve_neoantigens returns, computed or served
\* from the cache, carries the identifier of the sample, and the table
\* load_neoantigens returns is the concatenation of the per-sample tables, as
\* many rows as they have together.
C12_RowsTaggedAndConcatenated ==
    [][/\ (last'.op = "resolve_neoantigens" /\ last'.status = "ok")
            => RowsCarry(last'.value, sample_ids[last'.args[1]])
       /\ ConcatOfSampleTables
    ]_vars

\* The outcome of resolving one sample during the load_neoantigens call that
\* just ended, from the cache tree as it was before the call (the entries of
\* other samples do not bear on it).
SampleOutcome(i, call) ==
    load_single_sample_neoantigens(Disk, i, call.args[1], call.args[2],
                                   call.args[3], i \in call.args[4])

\* The first sample from i on whose resolution fails, with its failure and
\* the I/O of the samples up to it; sample 0 when none fails.
RECURSIVE FirstFailure(_, _, _)
FirstFailure(i, call, io) ==
    IF i > NumSamples
    THEN [sample |-> 0, status |-> "ok", io |-> io]
    ELSE LET Outcome(r) ==
                 IF r.status # "ok"
                 THEN [sample |-> i, status |-> r.status, io |-> AddIO(io, r.io)]
                 ELSE FirstFailure(i + 1, call, AddIO(io, r.io))
         IN  Outcome(SampleOutcome(i, call))

\* The cache paths of a sample, in both categories.
PathsOfSample(fl, i) == {p \in DOMAIN fl : p[2] = Str(sample_ids[i])}

\* The call ended with the failure and nothing after the failing sample ran.
AbortedAt(failure) ==
    failure.sample # 0 =>
        /\ last'.status = failure.status
        /\ last'.value = None
        /\ last'.io = failure.io
        /\ \A j \in SampleIdx : j > failure.sample =>
              /\ PathsOfSample(files', j) = PathsOfSample(files, j)
              /\ \A p \in PathsOfSample(files, j) : files'[p] = files[p]

\* C13: when the resolution of a sample fails during load_neoantigens, the
\* call ends with that failure and without a table, and no sample after the
\* first failing one is processed: no I/O beyond that sample's, no entry of a
\* later sample created or changed.
C13_NoFailureIsolation ==
    [][(last'.op = "load_neoantigens" /\ hla_alleles # "None")
       => AbortedAt(FirstFailure(1, last', NoIO))
    ]_vars

\* C13 witness: load_neoantigens ended with MissingData while the last
\* sample, whose source files are all there, has no entry in either category.
C13_Witness ==
    /\ last.op = "load_neoantigens"
    /\ last.status = "IOError"
    /\ cache_results
    /\ hla_alleles # "None"
    /\ AllSourcesPresent(NumSamples, last.args[1])
    /\ PathsOfSample(files, NumSamples) = {}

\* C14: of two processes saving under the same category and sample while the
\* sample's cache directory does not exist yet, neither fails because the
\* other created the directory first: no save ends with the error of
\* creating a directory that is there.
C14_ConcurrentMakedirsSafe ==
    \A p \in Procs : ~(procs[p].pc = "done" /\ procs[p].status = "OSError")

\* File names load_from_cache is asked for.
AskedFileNames ==
    StoreFileNames
        \cup {VariantsFileName(vt, mt) : vt \in VariantTypeArgs, mt \in MergeTypeArgs}
        \cup {NeoantigensFileName(vt, mt) : vt \in VariantTypeArgs, mt \in MergeTypeArgs}

\* After the call the category has no file and no directory, and load
\* reports absent for every sample and file name of it.
CategoryCleared(cache_name) ==
    /\ EntriesOf(files', cache_name) = {}
    /\ {d \in dirs' : d[1] = cache_name} = {}
    /\ \A i \in SampleIdx, fn \in AskedFileNames :
          load_from_cache([files |-> files', dirs |-> dirs'], cache_name,
                          sample_ids[i], fn).value = None

\* C15: after clear_variant_cache or clear_neoantigen_cache load reports
\* absent for every sample and file name of the category; a clear of a
\* category whose directory does not exist ends without error and leaves the
\* cache tree as it was; clear_caches leaves both categories empty.
C15_ClearEmptiesCategory ==
    [][IsClear(last') =>
        /\ last'.status = "ok"
        /\ last'.op = "clear_variant_cache" =>
              /\ CategoryCleared(variant_cache_name)
              /\ <<variant_cache_name>> \notin dirs => (files' = files /\ dirs' = dirs)
        /\ last'.op = "clear_neoantigen_cache" =>
              /\ CategoryCleared(neoantigen_cache_name)
              /\ <<neoantigen_cache_name>> \notin dirs => (files' = files /\ dirs' = dirs)
        /\ last'.op = "clear_caches" =>
              /\ CategoryCleared(variant_cache_name)
              /\ CategoryCleared(neoantigen_cache_name)
              /\ files' = <<>>
    ]_vars

\* C15 witness: clear_caches removed three entries, more than one category
\* held for one merge type, and the cache holds none.
C15_Witness ==
    /\ last.op = "clear_caches"
    /\ last.io.cache_rm >= 3
    /\ DOMAIN files = {}
    /\ dirs = {}

\* The call that just ended was a clear of the category.
ClearedCategory(cache_name) ==
    \/ last'.op = "clear_caches"
    \/ last'.op = "clear_variant_cache" /\ cache_name = variant_cache_name
    \/ last'.op = "clear_neoantigen_cache" /\ cache_name = neoantigen_cache_name

\* C16: an entry that is there stays, with the content it has, through
\* every load, load_variants and load_neoantigens call, and goes only by a
\* clear of its category; an entry that was absent appears only in a call
\* that computed (read source files for a variant entry, ran the predictor
\* for a neoantigen entry) and saved.
C16_EntryLifecycle ==
    [][/\ \A p \in DOMAIN files :
             (p \notin DOMAIN files' \/ files'[p] # files[p])
                => (p \notin DOMAIN files' /\ ClearedCategory(p[1]))
       /\ \A p \in DOMAIN files' \ DOMAIN files :
             /\ last'.op \in {"load_variants", "load_neoantigens"}
             /\ last'.io.cache_w >= 1
             /\ p[1] = variant_cache_name => last'.io.src >= 1
             /\ p[1] = neoantigen_cache_name => last'.io.predict >= 1
    ]_vars

\* C16 witness: load_variants was served from the cache for every sample,
\* from entries written by an earlier load_neoantigens whose tables are
\* cached too.
C16_Witness ==
    /\ last.op = "load_variants"
    /\ last.status = "ok"
    /\ last.io.src = 0
    /\ last.io.cache_r = NumSamples
    /\ EntriesOf(files, neoantigen_cache_name) # {}

TargetPath(proc) ==
    CachePath(SaveTarget(proc).cache_name, SaveTarget(proc).sample_id,
              SaveTarget(proc).file_name)

\* The step just taken was the write of the save of process p.
Wrote(p) == procs[p].pc = "write" /\ procs'[p].pc = "done"

\* C17: processes resolving or saving under one key race on the save and
\* the last writer wins: each write leaves under the key the value of the
\* process that wrote, whatever was there, and touches no other entry; no
\* other step changes an entry; a resolution that ended well leaves the key
\* present.
C17_LastWriterWins ==
    [][/\ \A p \in Procs : Wrote(p) =>
             /\ TargetPath(procs[p]) \in DOMAIN files'
             /\ files'[TargetPath(procs[p])] = Serialize(procs[p].obj)
             /\ \A e \in DOMAIN files \ {TargetPath(procs[p])} :
                   e \in DOMAIN files' /\ files'[e] = files[e]
       /\ (\A p \in Procs : ~Wrote(p)) => files' = files
       /\ \A p \in Procs :
             (/\ procs'[p].pc = "done"
              /\ procs'[p].op = "resolve_variants"
              /\ procs'[p].status = "ok")
                => TargetPath(procs'[p]) \in DOMAIN files'
    ]_vars

\* C17 witness: two processes resolved the same sample, variant type and
\* merge type, both missed the cache, both read the source files and merged,
\* and both saved.
C17_Witness ==
    \E p, q \in Procs :
        /\ p # q
        /\ procs[p].op = "resolve_variants"
        /\ procs[q].op = "resolve_variants"
        /\ procs[p].args = procs[q].args
        /\ procs[p].pc = "done" /\ procs[p].status = "ok" /\ procs[p].src >= 1
        /\ procs[q].pc = "done" /\ procs[q].status = "ok" /\ procs[q].src >= 1
        /\ files[TargetPath(procs[p])] = Serialize(procs[q].obj)

\* The call that just ended repeats the successful resolve_neoantigens call
\* before it for the same sample, variant type and merge type with another
\* ic50_cutoff.
RepeatedWithOtherCutoff ==
    /\ cache_results
    /\ last.op = "resolve_neoantigens"
    /\ last.status = "ok"
    /\ last'.op = "resolve_neoantigens"
    /\ <<last'.args[1], last'.args[2], last'.args[3]>>
          = <<last.args[1], last.args[2], last.args[3]>>
    /\ last'.args[4] # last.args[4]

\* The repeated call is served from the neoantigen entry alone: one path
\* tested and read, no predictor run, no source file opened.
ServedFromNeoantigenEntry ==
    /\ last'.status = "ok"
    /\ last'.io = [NoIO EXCEPT !.cache_probe = 1, !.cache_r = 1]
    /\ files' = files

\* C18: with caching enabled, a resolve_neoantigens call repeated for the
\* same sample, variant type and merge type with other prediction parameters
\* returns the table the first call computed, without running the predictor
\* and without reading the variant cache or a source file.
C18_KeyIgnoresPredictionParams ==
    [][RepeatedWithOtherCutoff
          => (ServedFromNeoantigenEntry /\ last'.value = last.value)
    ]_vars

\* Entries and directories of the samples in S are what they were before the
\* call.
SamplesUntouched(S) ==
    /\ \A i \in S : PathsOfSample(files', i) = PathsOfSample(files, i)
    /\ \A path \in DOMAIN files :
          (\E i \in S : path[2] = Str(sample_ids[i])) => files'[path] = files[path]
    /\ {d \in dirs' : Len(d) = 2 /\ \E i \in S : d[2] = Str(sample_ids[i])}
          = {d \in dirs : Len(d) = 2 /\ \E i \in S : d[2] = Str(sample_ids[i])}

\* C19: a resolve_variants call that fails (absent source file, rejected
\* merge type or variant type) leaves the whole cache tree as it was, and
\* load_variants leaves the entries of every sample it has no collection for
\* as they were; if it fails itself the whole cache tree is as it was.
C19_FailedResolutionLeavesCache ==
    [][/\ (last'.op = "resolve_variants" /\ last'.status # "ok")
            => (files' = files /\ dirs' = dirs)
       /\ (last'.op = "load_variants" /\ last'.status # "ok")
            => (files' = files /\ dirs' = dirs)
       /\ (last'.op = "load_variants" /\ last'.status = "ok")
            => SamplesUntouched(SampleIdx \ DOMAIN last'.value.items)
    ]_vars

\* C19 witness: resolve_variants failed on an absent source file after
\* reading an earlier one, with caching enabled and another sample's entry in
\* the cache.
C19_Witness ==
    /\ cache_results
    /\ last.op = "resolve_variants"
    /\ last.status = "IOError"
    /\ last.io.src >= 2
    /\ PathsOfSample(files, last.args[1]) = {}
    /\ DOMAIN files # {}

\* The sample's variant entry is in the cache after the call and its
\* neoantigen entry is not.
VariantEntryOnly(i, vt, mt) ==
    /\ VariantEntry(i, vt, mt) \in DOMAIN files'
    /\ NeoantigenEntry(i, vt, mt) \notin DOMAIN files'

\* The entries the sample had are kept and its neoantigen entry is there,
\* with its variant entry if the neoantigen entry is new.
EntriesRemain(j, vt, mt) ==
    /\ PathsOfSample(files, j) \subseteq PathsOfSample(files', j)
    /\ NeoantigenEntry(j, vt, mt) \in DOMAIN files'
    /\ NeoantigenEntry(j, vt, mt) \notin DOMAIN files
          => VariantEntry(j, vt, mt) \in DOMAIN files'

\* load_neoantigens stopped at the failing sample: the samples before it
\* keep their entries, and a predictor failure leaves the failing sample's
\* variant entry without a neoantigen entry.
StoppedWithEntries(failure, vt, mt) ==
    failure.sample # 0 =>
        /\ \A j \in SampleIdx : j < failure.sample => EntriesRemain(j, vt, mt)
        /\ failure.status = "PredictorError"
              => VariantEntryOnly(failure.sample, vt, mt)

\* C20: with caching enabled, a resolve_neoantigens call in which the
\* predictor fails leaves the sample's variant entry in the cache and no
\* neoantigen entry; a neoantigen entry appears only in a call that ran the
\* predictor and succeeded, and then the variant entry is there too; and a
\* load_neoantigens call that fails keeps the entries of the samples before
\* the failing one.
C20_VariantEntryBeforePrediction ==
    [][cache_results =>
         /\ (last'.op = "resolve_neoantigens" /\ last'.status = "PredictorError")
              => /\ last'.io.predict = 1
                 /\ VariantEntryOnly(last'.args[1], last'.args[2], last'.args[3])
         /\ last'.op = "resolve_neoantigens"
              => LET i == last'.args[1]
                     vt == last'.args[2]
                     mt == last'.args[3]
                 IN  (/\ NeoantigenEntry(i, vt, mt) \in DOMAIN files'
                      /\ NeoantigenEntry(i, vt, mt) \notin DOMAIN files)
                       => /\ last'.status = "ok"
                          /\ last'.io.predict = 1
                          /\ VariantEntry(i, vt, mt) \in DOMAIN files'
         /\ (last'.op = "load_neoantigens" /\ hla_alleles # "None")
              => StoppedWithEntries(FirstFailure(1, last', NoIO),
                                    last'.args[1], last'.args[2])
    ]_vars

\* C20 witness: load_neoantigens ended with the predictor failing for a
\* later sample after writing, in this call, both entries of the sample
\* before it and the variant entry of the failing one.
C20_Witness ==
    /\ cache_results
    /\ last.op = "load_neoantigens"
    /\ last.status = "PredictorError"
    /\ last.io.predict = 2
    /\ last.io.cache_w = 3
    /\ NeoantigenEntry(1, last.args[1], last.args[2]) \in DOMAIN files
    /\ VariantEntry(2, last.args[1], last.args[2]) \in DOMAIN files
    /\ NeoantigenEntry(2, last.args[1], last.args[2]) \notin DOMAIN files

====
